---- MODULE Spec2Model ----
(***************************************************************************)
(* Ingestion pipeline of the finance app: the upload normalizers           *)
(* (app.py, normalize_uploaded_data), the CLI loaders and the ledger store *)
(* (src/data_loader.py), the upload handler with its merge (app.py,        *)
(* api_upload), the mtime-keyed reader cache and the upload history.       *)
(*                                                                         *)
(* Representation.                                                         *)
(*  - A raw table (a pandas DataFrame read from a CSV or a spreadsheet) is *)
(*    [columns: sequence of column names, rows: sequence of rows], a row a *)
(*    function from column name to cell.                                   *)
(*  - A cell is [t, n, s]: t = "num" a numeric cell of value n;            *)
(*    t = "na" an empty cell (NaN); t = "str" a text cell. A text cell     *)
(*    that spells a date carries the date's format in s and its day number *)
(*    in n; one that spells a number carries the numeral's shape in s and  *)
(*    its value in n; any other text has its content in s.                 *)
(*  - Column names and cell texts are ASCII: the Korean markers of the     *)
(*    source are romanized (nalja = date, sigan = time, jongryu = type,    *)
(*    gamaengjeom = merchant, wonhwageumaek = KRW amount,                  *)
(*    chungjeon = charge, gyeolje = payment).                              *)
(*  - A float is a fixed-point integer: Float(n) = n * KRW_PER_GBP, so     *)
(*    that multiplying a whole amount by the rate 1/1750 is exact. NaN is  *)
(*    the float NaN, NaT the missing date, NA the missing text.            *)
(***************************************************************************)
EXTENDS Integers, Sequences, FiniteSets, TLC

VARIABLES
    csv_file,        \* COMBINED_CSV_PATH: [exists, header, rows, mtime]
    df_cache,        \* app._df_cache: [none, rows]
    df_cache_time,   \* app._df_cache_time: [none, t]
    upload_history,  \* UPLOAD_HISTORY_PATH: sequence of entries
    last,            \* the last operation: what it was given and what it answered
    table,           \* normalizer check: the raw table under normalization
    normalized,      \* normalizer check: [done, loader, raised, rows]
    calls            \* the upload calls in progress, by thread: [pc, filename, new_df, combined]

vars == <<csv_file, df_cache, df_cache_time, upload_history, last, table, normalized, calls>>

----------------------------------------------------------------------------
(* Bounds of the model *)

\* days of the calendar that input rows may carry
MaxDate == 2
\* rows of one input table
MaxRows == 2
\* records the ledger file may hold (an ingest that would exceed it is not taken)
MaxLedger == 2

----------------------------------------------------------------------------
(* Values *)

\* config.py: KRW_TO_GBP_RATE = 1 / 1750
KRW_PER_GBP == 1750

NaT == 0
NaN == -999999999
NA == "<NA>"

Float(n) == n * KRW_PER_GBP

IsNaN(x) == x = NaN

Abs(x) == IF IsNaN(x) THEN NaN ELSE IF x < 0 THEN -x ELSE x

Neg(x) == IF IsNaN(x) THEN NaN ELSE -x

\* x > 0 on floats: False on NaN
Gt0(x) == ~IsNaN(x) /\ x > 0

Sign(x) == IF x > 0 THEN 1 ELSE IF x < 0 THEN -1 ELSE 0

\* x * KRW_TO_GBP_RATE
TimesRate(x) == IF IsNaN(x) THEN NaN ELSE x \div KRW_PER_GBP

Num(n) == [t |-> "num", n |-> n, s |-> ""]
Str(s) == [t |-> "str", n |-> 0, s |-> s]
Empty == [t |-> "na", n |-> 0, s |-> ""]
\* the text of day d written in format fmt
DateText(fmt, d) == [t |-> "str", n |-> d, s |-> fmt]
\* the text of number n written in shape: "#" plain digits, "#,###" with
\* thousands separators or spaces
NumText(shape, n) == [t |-> "str", n |-> n, s |-> shape]

DateFormats == {"%d/%m/%Y", "%Y.%m.%d", "%Y-%m-%d"}
NumShapes == {"#", "#,###"}

IsDateText(c) == c.t = "str" /\ c.s \in DateFormats
IsNumText(c) == c.t = "str" /\ c.s \in NumShapes

Range(s) == {s[i] : i \in 1..Len(s)}

----------------------------------------------------------------------------
(* Column names.  The code tests `marker in str(col)` (case-sensitive) and  *)
(* `marker in col.lower()`; a column name is an atomic string here, so the  *)
(* markers each name contains are tabulated.                                *)

ColumnNames ==
    {"Transaction ID", "Date", "Time", "Type", "Name", "Category", "Amount",
     "Money Out", "Money In",
     "nalja(Date)", "sigan(Time)", "jongryu(Payment type)",
     "gamaengjeom ireum(Name of the merchant)", "wonhwageumaek(KRW)", "geumaek",
     "date", "Desc", "Amt", "amount", "description", "category",
     "Statement", "Unnamed: 1", "Unnamed: 2", "Unnamed: 3"}

\* the markers m with `m in str(col)`
MarkersIn(col) ==
    CASE col = "nalja(Date)" -> {"nalja"}
      [] col = "sigan(Time)" -> {"sigan"}
      [] col = "jongryu(Payment type)" -> {"jongryu"}
      [] col = "gamaengjeom ireum(Name of the merchant)" -> {"gamaengjeom"}
      [] col = "wonhwageumaek(KRW)" -> {"wonhwageumaek", "KRW"}
      [] OTHER -> {}

\* the markers m with `m in col.lower()`
MarkersInLower(col) ==
    CASE col \in {"Date", "date", "nalja(Date)"} -> {"date"}
      [] col \in {"Time", "sigan(Time)"} -> {"time"}
      [] col \in {"Type", "jongryu(Payment type)"} -> {"type"}
      [] col \in {"Name", "Unnamed: 1", "Unnamed: 2", "Unnamed: 3"} -> {"name"}
      [] col = "gamaengjeom ireum(Name of the merchant)" -> {"name", "merchant"}
      [] col \in {"Category", "category"} -> {"category"}
      [] col \in {"Amount", "amount"} -> {"amount"}
      [] col = "description" -> {"description"}
      [] OTHER -> {}

In(m, col) == m \in MarkersIn(col)
InLower(m, col) == m \in MarkersInLower(col)

----------------------------------------------------------------------------
(* pandas primitives, as the code uses them *)

HasColumn(df, c) == \E i \in 1..Len(df.columns) : df.columns[i] = c

\* [c for c in df.columns if P(c)], in column order
ColumnsWhere(df, P(_)) == SelectSeq(df.columns, P)

\* df.select_dtypes(include=['number']).columns: the columns every cell of
\* which is a number or empty (a table without rows has object columns)
IsNumericColumn(df, c) ==
    /\ Len(df.rows) > 0
    /\ \A i \in 1..Len(df.rows) : df.rows[i][c].t \in {"num", "na"}

NumericColumns(df) == SelectSeq(df.columns, LAMBDA c : IsNumericColumn(df, c))

\* pd.to_numeric(cell, errors='coerce')
ToNumeric(c) ==
    IF c.t = "num" THEN Float(c.n)
    ELSE IF c.t = "str" /\ c.s = "#" THEN Float(c.n)
    ELSE NaN

\* pd.to_numeric(str(cell).replace(',', '').replace(' ', ''), errors='coerce')
ToNumericStripped(c) ==
    IF c.t = "num" THEN Float(c.n)
    ELSE IF IsNumText(c) THEN Float(c.n)
    ELSE NaN

\* pd.to_datetime(cell, format='%d/%m/%Y', errors='coerce')
ToDatetimeDMY(c) ==
    IF c.t = "str" /\ c.s = "%d/%m/%Y" THEN c.n ELSE NaT

\* pd.to_datetime(cell, errors='coerce'), on the year-first texts the tables
\* of the model hand it (a day-first text is read month-first by the parser
\* and is not among them)
ToDatetime(c) ==
    IF c.t = "str" /\ c.s \in {"%Y.%m.%d", "%Y-%m-%d"} THEN c.n ELSE NaT

\* pd.to_datetime(str(cell).replace('.', '-'), errors='coerce')
ToDatetimeDotted(c) ==
    IF c.t = "str" /\ c.s \in {"%Y.%m.%d", "%Y-%m-%d"} THEN c.n ELSE NaT

\* the value a text column of the frame takes from a cell
TextOf(c) ==
    IF c.t = "na" THEN NA
    ELSE IF c.t = "num" THEN ToString(c.n)
    ELSE c.s

\* cell.astype(str): an empty cell becomes the text 'nan'
AsStr(c) == IF c.t = "na" THEN "nan" ELSE TextOf(c)

\* series.fillna(v)
FillNa(x, v) == IF x = NA THEN v ELSE x

FillNaN(x, v) == IF IsNaN(x) THEN v ELSE x

\* str.contains('chungjeon|charge', case=False, na=False)
ContainsCharge(s) ==
    s \in {"chungjeon", "charge", "Charge", "CHARGE", " Charge ", "charge (top-up)"}

\* s.lower().strip() == KOREAN_INCOME_TYPE
IsChargeExact(s) == s \in {"charge", "Charge", "CHARGE", " Charge "}

----------------------------------------------------------------------------
(* Canonical records and the upload normalizer *)

Record(date, time, bank, type, merchant, category, amount_gbp, original_currency, original_amount, is_income) ==
    [date |-> date, time |-> time, bank |-> bank, type |-> type,
     merchant |-> merchant, category |-> category, amount_gbp |-> amount_gbp,
     original_currency |-> original_currency,
     original_amount |-> original_amount, is_income |-> is_income]

\* the result of a normalizer or loader: the frame, or the exception it raised
Frame(rows) == [raised |-> FALSE, rows |-> rows]
Raised == [raised |-> TRUE, rows |-> <<>>]

\* normalized.dropna(subset=['date', 'amount_gbp'], how='all')
DropNaAll(rows) ==
    SelectSeq(rows, LAMBDA r : ~(r.date = NaT /\ IsNaN(r.amount_gbp)))

\* the first column of df with P, or the default
FirstColumn(df, P(_), default) ==
    LET cs == SelectSeq(df.columns, P)
    IN  IF Len(cs) > 0 THEN cs[1] ELSE default

NoColumn == "<none>"

IsMonzo(df) == HasColumn(df, "Transaction ID") \/ HasColumn(df, "Date")

IsKorean(df) ==
    \E i \in 1..Len(df.columns) :
        \/ In("gamaengjeom", df.columns[i])
        \/ In("jongryu", df.columns[i])
        \/ In("wonhwageumaek", df.columns[i])

\* a Monzo branch that subtracts Money Out as it is written
MonzoRecordSubtractsOut(df, r) ==
    LET amount_gbp ==
            IF HasColumn(df, "Amount") THEN ToNumeric(r["Amount"])
            ELSE FillNaN(ToNumeric(r["Money In"]), 0)
                   - FillNaN(ToNumeric(r["Money Out"]), 0)
    IN  Record(ToDatetimeDMY(r["Date"]),
               IF HasColumn(df, "Time") THEN TextOf(r["Time"]) ELSE "",
               "Monzo",
               IF HasColumn(df, "Type") THEN TextOf(r["Type"]) ELSE "",
               IF HasColumn(df, "Name") THEN TextOf(r["Name"]) ELSE "",
               IF HasColumn(df, "Category") THEN TextOf(r["Category"]) ELSE "Other",
               amount_gbp,
               "GBP",
               amount_gbp,
               IF HasColumn(df, "Money In")
               THEN Gt0(FillNaN(ToNumeric(r["Money In"]), 0))
               ELSE Gt0(amount_gbp))

\* app.py 456-483: the Monzo branch, one row
MonzoRecord(df, r) ==
    LET amount_gbp ==
            IF HasColumn(df, "Amount") THEN ToNumeric(r["Amount"])
            ELSE FillNaN(ToNumeric(r["Money In"]), 0)
                   - Abs(FillNaN(ToNumeric(r["Money Out"]), 0))
    IN  Record(ToDatetimeDMY(r["Date"]),
               IF HasColumn(df, "Time") THEN TextOf(r["Time"]) ELSE "",
               "Monzo",
               IF HasColumn(df, "Type") THEN TextOf(r["Type"]) ELSE "",
               IF HasColumn(df, "Name") THEN TextOf(r["Name"]) ELSE "",
               IF HasColumn(df, "Category") THEN TextOf(r["Category"]) ELSE "Other",
               amount_gbp,
               "GBP",
               amount_gbp,
               IF HasColumn(df, "Money In")
               THEN Gt0(FillNaN(ToNumeric(r["Money In"]), 0))
               ELSE Gt0(amount_gbp))

\* a KeyError of the Monzo branch: no 'Date' (line 598), no amount column
\* (line 478), 'Money Out' without 'Money In' (line 474)
MonzoRaises(df) ==
    \/ ~HasColumn(df, "Date")
    \/ ~HasColumn(df, "Amount") /\ ~HasColumn(df, "Money Out")
    \/ ~HasColumn(df, "Amount") /\ ~HasColumn(df, "Money In")

\* a TravelWallet branch that takes the type for a charge as the CLI loader
\* does, by equality after lower() and strip()
KoreanRecordExactCharge(df, r) ==
    LET krw_col == FirstColumn(df, LAMBDA c : In("wonhwageumaek", c) \/ In("KRW", c), NoColumn)
        numeric_cols == NumericColumns(df)
        krw_amount ==
            IF krw_col # NoColumn THEN ToNumericStripped(r[krw_col])
            ELSE IF Len(numeric_cols) > 0
                 THEN ToNumeric(r[numeric_cols[Len(numeric_cols)]])
                 ELSE 0
        date_col == FirstColumn(df, LAMBDA c : In("nalja", c) \/ InLower("date", c), NoColumn)
        time_col == FirstColumn(df, LAMBDA c : In("sigan", c) \/ InLower("time", c), NoColumn)
        type_col == FirstColumn(df, LAMBDA c : In("jongryu", c), NoColumn)
        merchant_col == FirstColumn(df, LAMBDA c : In("gamaengjeom", c), NoColumn)
        is_income ==
            IF type_col # NoColumn THEN IsChargeExact(AsStr(r[type_col])) ELSE FALSE
        converted == TimesRate(Abs(krw_amount))
    IN  Record(IF date_col # NoColumn THEN ToDatetimeDotted(r[date_col]) ELSE NaT,
               IF time_col # NoColumn THEN AsStr(r[time_col]) ELSE "",
               "TravelWallet (Korea)",
               IF type_col # NoColumn THEN AsStr(r[type_col]) ELSE "",
               IF merchant_col # NoColumn THEN FillNa(TextOf(r[merchant_col]), "Unknown")
               ELSE "Unknown",
               IF merchant_col # NoColumn THEN FillNa(TextOf(r[merchant_col]), "Other")
               ELSE "Other",
               IF is_income THEN converted ELSE Neg(Abs(converted)),
               "KRW",
               Abs(krw_amount),
               is_income)

\* app.py 486-554: the TravelWallet branch, one row
KoreanRecord(df, r) ==
    LET krw_col == FirstColumn(df, LAMBDA c : In("wonhwageumaek", c) \/ In("KRW", c), NoColumn)
        numeric_cols == NumericColumns(df)
        krw_amount ==
            IF krw_col # NoColumn THEN ToNumericStripped(r[krw_col])
            ELSE IF Len(numeric_cols) > 0
                 THEN ToNumeric(r[numeric_cols[Len(numeric_cols)]])
                 ELSE 0
        date_col == FirstColumn(df, LAMBDA c : In("nalja", c) \/ InLower("date", c), NoColumn)
        time_col == FirstColumn(df, LAMBDA c : In("sigan", c) \/ InLower("time", c), NoColumn)
        type_col == FirstColumn(df, LAMBDA c : In("jongryu", c), NoColumn)
        merchant_col == FirstColumn(df, LAMBDA c : In("gamaengjeom", c), NoColumn)
        is_income ==
            IF type_col # NoColumn THEN ContainsCharge(AsStr(r[type_col])) ELSE FALSE
        converted == TimesRate(Abs(krw_amount))
    IN  Record(IF date_col # NoColumn THEN ToDatetimeDotted(r[date_col]) ELSE NaT,
               IF time_col # NoColumn THEN AsStr(r[time_col]) ELSE "",
               "TravelWallet (Korea)",
               IF type_col # NoColumn THEN AsStr(r[type_col]) ELSE "",
               IF merchant_col # NoColumn THEN FillNa(TextOf(r[merchant_col]), "Unknown")
               ELSE "Unknown",
               IF merchant_col # NoColumn THEN FillNa(TextOf(r[merchant_col]), "Other")
               ELSE "Other",
               IF is_income THEN converted ELSE Neg(Abs(converted)),
               "KRW",
               Abs(krw_amount),
               is_income)

\* app.py 557-595: the generic branch, one row.  The frame starts without an
\* index: a scalar assigned before the first column-valued assignment makes
\* an empty column, which is filled with missing values once a later
\* assignment brings the rows.
GenericRecord(df, r) ==
    LET date_cols == SelectSeq(df.columns, LAMBDA c : InLower("date", c))
        amount_cols == SelectSeq(df.columns, LAMBDA c : InLower("amount", c) \/ InLower("value", c))
        numeric_cols == NumericColumns(df)
        cat_cols == SelectSeq(df.columns, LAMBDA c : InLower("category", c) \/ InLower("type", c))
        name_cols == SelectSeq(df.columns,
                        LAMBDA c : InLower("name", c) \/ InLower("merchant", c)
                                     \/ InLower("description", c))
        indexed == Len(date_cols) > 0
        amount_gbp ==
            IF Len(amount_cols) > 0 THEN ToNumeric(r[amount_cols[1]])
            ELSE IF Len(numeric_cols) > 0 THEN ToNumeric(r[numeric_cols[1]])
            ELSE IF indexed THEN 0 ELSE NaN
    IN  Record(IF indexed THEN ToDatetime(r[date_cols[1]]) ELSE NaT,
               IF indexed THEN "" ELSE NA,
               IF indexed THEN "Uploaded" ELSE NA,
               IF indexed THEN "" ELSE NA,
               IF Len(name_cols) > 0 THEN TextOf(r[name_cols[1]]) ELSE "",
               IF Len(cat_cols) > 0 THEN TextOf(r[cat_cols[1]]) ELSE "Other",
               amount_gbp,
               IF indexed \/ Len(amount_cols) > 0 \/ Len(numeric_cols) > 0
               THEN "GBP" ELSE NA,
               amount_gbp,
               Gt0(amount_gbp))

\* the generic branch yields rows only if some assignment brought them
GenericHasRows(df) ==
    \/ \E i \in 1..Len(df.columns) :
          LET c == df.columns[i]
          IN  \/ InLower("date", c) \/ InLower("amount", c) \/ InLower("value", c)
              \/ InLower("category", c) \/ InLower("type", c)
              \/ InLower("name", c) \/ InLower("merchant", c) \/ InLower("description", c)
    \/ Len(NumericColumns(df)) > 0

MapRows(df, F(_, _)) == [i \in 1..Len(df.rows) |-> F(df, df.rows[i])]

\* a classification that tries the TravelWallet markers before the Monzo names
DetectFormatKoreanFirst(df) ==
    IF IsKorean(df) THEN "Korean" ELSE IF IsMonzo(df) THEN "Monzo" ELSE "Generic"

\* the branch normalize_uploaded_data takes on df
DetectFormat(df) ==
    IF IsMonzo(df) THEN "Monzo" ELSE IF IsKorean(df) THEN "Korean" ELSE "Generic"

\* app.py 451-600
normalize_uploaded_data(df, source_type) ==
    IF DetectFormat(df) = "Monzo" THEN
        IF MonzoRaises(df) THEN Raised
        ELSE Frame(DropNaAll(MapRows(df, MonzoRecord)))
    ELSE IF DetectFormat(df) = "Korean" THEN
        Frame(DropNaAll(MapRows(df, KoreanRecord)))
    ELSE
        IF GenericHasRows(df) THEN Frame(DropNaAll(MapRows(df, GenericRecord)))
        ELSE Frame(<<>>)

----------------------------------------------------------------------------
(* The CLI loaders and the ledger store (src/data_loader.py) *)

MonzoCsvColumns == {"Date", "Time", "Type", "Name", "Category", "Amount", "Money In"}

\* .astype(float) raises on a text that is no plain numeral
AsFloatRaises(c) == c.t = "str" /\ c.s # "#"

\* data_loader.py 27-63: a missing column, a date not in %d/%m/%Y or a
\* non-numeric amount raises
load_monzo_csv(df) ==
    IF \/ \E c \in MonzoCsvColumns : ~HasColumn(df, c)
       \/ \E i \in 1..Len(df.rows) :
             \/ df.rows[i]["Date"].t = "num"
             \/ df.rows[i]["Date"].t = "str" /\ df.rows[i]["Date"].s # "%d/%m/%Y"
             \/ AsFloatRaises(df.rows[i]["Amount"])
             \/ AsFloatRaises(df.rows[i]["Money In"])
    THEN Raised
    ELSE Frame([i \in 1..Len(df.rows) |->
            LET r == df.rows[i]
            IN  Record(ToDatetimeDMY(r["Date"]),
                       TextOf(r["Time"]),
                       "Monzo",
                       TextOf(r["Type"]),
                       TextOf(r["Name"]),
                       TextOf(r["Category"]),
                       ToNumeric(r["Amount"]),
                       "GBP",
                       ToNumeric(r["Amount"]),
                       Gt0(FillNaN(ToNumeric(r["Money In"]), 0)))])

\* data_loader.py 105-163, on the table read from the spreadsheet
load_korean_excel(df) ==
    LET numeric_cols == NumericColumns(df)
        amount_col == numeric_cols[Len(numeric_cols)]
        merchant_col == FirstColumn(df, LAMBDA c : In("gamaengjeom", c) \/ InLower("merchant", c), NoColumn)
        payment_type_col == FirstColumn(df, LAMBDA c : In("jongryu", c) \/ InLower("type", c), NoColumn)
        date_col == FirstColumn(df, LAMBDA c : In("nalja", c) \/ InLower("date", c), NoColumn)
    IN  IF Len(df.rows) = 0 \/ Len(numeric_cols) = 0 THEN Frame(<<>>)
        ELSE IF \/ /\ date_col # NoColumn
                   /\ \E i \in 1..Len(df.rows) :
                         LET c == df.rows[i][date_col]
                         IN  c.t = "str" /\ c.s \notin {"%Y.%m.%d", "%Y-%m-%d"}
                \/ payment_type_col # NoColumn /\ IsNumericColumn(df, payment_type_col)
        THEN Raised
        ELSE Frame([i \in 1..Len(df.rows) |->
            LET r == df.rows[i]
                original_amount == ToNumeric(r[amount_col])
                amount_gbp == TimesRate(original_amount)
            IN  Record(IF date_col # NoColumn THEN ToDatetime(r[date_col]) ELSE NaT,
                       "",
                       "TravelWallet (Korea)",
                       IF payment_type_col # NoColumn THEN TextOf(r[payment_type_col]) ELSE "",
                       IF merchant_col # NoColumn THEN TextOf(r[merchant_col]) ELSE "",
                       IF merchant_col # NoColumn THEN TextOf(r[merchant_col]) ELSE "",
                       amount_gbp,
                       "KRW",
                       original_amount,
                       IF payment_type_col # NoColumn
                       THEN r[payment_type_col].t = "str" /\ IsChargeExact(r[payment_type_col].s)
                       ELSE Gt0(amount_gbp))])

\* a date before another in sort_values('date'): NaT sorts last
DateLeq(a, b) == IF a = NaT THEN b = NaT ELSE (b = NaT \/ a <= b)

IsSortedByDate(rows) ==
    \A i \in 1..Len(rows) - 1 : DateLeq(rows[i].date, rows[i + 1].date)

Permutations1(n) == {p \in [1..n -> 1..n] : \A i, j \in 1..n : p[i] = p[j] => i = j}

\* the stable sort by date: equal dates keep their order
IsStable(p, rows) ==
    \A i, j \in 1..Len(rows) :
        (i < j /\ rows[p[i]].date = rows[p[j]].date) => p[i] < p[j]

\* combined.sort_values('date'): the default kind is quicksort, which is not
\* stable, so every date-sorted arrangement of the rows is a possible result
SortValuesDate(rows) ==
    {[i \in 1..Len(rows) |-> rows[p[i]]] :
        p \in {q \in Permutations1(Len(rows)) :
                  IsSortedByDate([i \in 1..Len(rows) |-> rows[q[i]]])}}

\* the one arrangement a stable sort by date gives
StableSortByDate(rows) ==
    CHOOSE out \in {[i \in 1..Len(rows) |-> rows[p[i]]] :
                      p \in {q \in Permutations1(Len(rows)) :
                                /\ IsSortedByDate([i \in 1..Len(rows) |-> rows[q[i]]])
                                /\ IsStable(q, rows)}} : TRUE

\* data_loader.py 166-194: the frames that are not empty, concatenated and
\* sorted by date; nothing to merge gives the empty frame
normalize_and_merge(monzo_rows, korean_rows) ==
    SortValuesDate(monzo_rows \o korean_rows)

\* pandas' default na_values of read_csv that the texts of the model can spell
NaValues == {"", "nan", "NaN", "NA", "N/A", "null", "None", NA}

\* one text field as to_csv writes it: a missing value is the empty field
WriteText(x) == IF x = NA THEN "" ELSE x

\* one text field as read_csv reads it back
ReadText(x) == IF x \in NaValues THEN NA ELSE x

\* data_loader.py 205-208: the CSV line of a record.  The date is written as
\* %Y-%m-%d (a missing date as the empty field), floats in full precision.
WriteRow(r) ==
    [r EXCEPT !.time = WriteText(r.time), !.bank = WriteText(r.bank),
              !.type = WriteText(r.type), !.merchant = WriteText(r.merchant),
              !.category = WriteText(r.category),
              !.original_currency = WriteText(r.original_currency)]

\* a load that converts the amounts of foreign records once more
ReadRowConvertsAgain(l) ==
    [l EXCEPT !.time = ReadText(l.time), !.bank = ReadText(l.bank),
              !.type = ReadText(l.type), !.merchant = ReadText(l.merchant),
              !.category = ReadText(l.category),
              !.original_currency = ReadText(l.original_currency),
              !.amount_gbp = IF l.original_currency = "KRW" THEN TimesRate(l.amount_gbp)
                             ELSE l.amount_gbp]

\* data_loader.py 221-222: the record of a CSV line
ReadRow(l) ==
    [l EXCEPT !.time = ReadText(l.time), !.bank = ReadText(l.bank),
              !.type = ReadText(l.type), !.merchant = ReadText(l.merchant),
              !.category = ReadText(l.category),
              !.original_currency = ReadText(l.original_currency)]

MapSeq(s, F(_)) == [i \in 1..Len(s) |-> F(s[i])]

\* the lines save_combined_csv writes for a frame
CsvLines(rows) == MapSeq(rows, WriteRow)

\* load_combined_csv raises when the file is absent (FileNotFoundError) or
\* holds no header line (EmptyDataError)
LoadRaises(f) == ~f.exists \/ ~f.header

\* data_loader.py 214-224
load_combined_csv(f) == MapSeq(f.rows, ReadRow)

\* df.drop_duplicates(): the first of equal rows is kept (missing values
\* compare equal to each other)
RECURSIVE drop_duplicates(_)
drop_duplicates(rows) ==
    IF Len(rows) = 0 THEN <<>>
    ELSE LET init == drop_duplicates(SubSeq(rows, 1, Len(rows) - 1))
             x == rows[Len(rows)]
         IN  IF x \in Range(init) THEN init ELSE Append(init, x)

----------------------------------------------------------------------------
(* Input tables *)

Dates == 1..MaxDate

\* whole amounts of the exports: pounds for Monzo, won for TravelWallet
PoundAmounts == {-5, 7}
WonAmounts == {-3500, 50000}

SeqsUpTo(S, n) == UNION {[1..k -> S] : k \in 0..n}

Tables(columns, rowset) ==
    {[columns |-> columns, rows |-> rs] : rs \in SeqsUpTo(rowset, MaxRows)}

MonzoExportColumns ==
    <<"Transaction ID", "Date", "Time", "Type", "Name", "Category", "Amount",
      "Money Out", "Money In">>

\* a row of a Monzo export: Money Out holds a spending's amount, Money In an
\* income's amount, the other of the two is empty
MonzoExportRow(d, a) ==
    ("Transaction ID" :> Str("tx")) @@ ("Date" :> d) @@ ("Time" :> Str("12:30:00"))
    @@ ("Type" :> Str("Card payment")) @@ ("Name" :> Str("Tesco"))
    @@ ("Category" :> Str("Groceries")) @@ ("Amount" :> a)
    @@ ("Money Out" :> IF a.t = "num" /\ a.n < 0 THEN a ELSE Empty)
    @@ ("Money In" :> IF a.t = "num" /\ a.n > 0 THEN a ELSE Empty)

MonzoDateCells == {DateText("%d/%m/%Y", d) : d \in Dates} \cup {Empty}
MonzoAmountCells == {Num(a) : a \in PoundAmounts \cup {0}} \cup {Empty}

MonzoExportTables ==
    Tables(MonzoExportColumns,
           {MonzoExportRow(d, a) : d \in MonzoDateCells, a \in MonzoAmountCells})

\* a Monzo-like table without an 'Amount' column
MoneyColumns == <<"Date", "Name", "Money Out", "Money In">>

MoneyRow(d, a) ==
    ("Date" :> d) @@ ("Name" :> Str("Tesco"))
    @@ ("Money Out" :> IF a < 0 THEN Num(-a) ELSE Num(0))
    @@ ("Money In" :> IF a > 0 THEN Num(a) ELSE Num(0))

MoneyTables ==
    Tables(MoneyColumns,
           {MoneyRow(d, a) : d \in MonzoDateCells, a \in PoundAmounts \cup {0}})

\* tables the Monzo branch takes and cannot normalize
BrokenMonzoTables ==
    Tables(<<"Date", "Desc", "Amt">>,
           {("Date" :> DateText("%d/%m/%Y", d)) @@ ("Desc" :> Str("Tesco")) @@ ("Amt" :> Num(a)) :
               d \in Dates, a \in PoundAmounts})

TravelWalletColumns ==
    <<"nalja(Date)", "jongryu(Payment type)",
      "gamaengjeom ireum(Name of the merchant)", "wonhwageumaek(KRW)">>

TravelWalletRow(d, ty, m, a) ==
    ("nalja(Date)" :> d) @@ ("jongryu(Payment type)" :> ty)
    @@ ("gamaengjeom ireum(Name of the merchant)" :> m)
    @@ ("wonhwageumaek(KRW)" :> a)

KoreanDateCells == {DateText("%Y.%m.%d", d) : d \in Dates}
PaymentTypeCells == {Str("chungjeon"), Str("gyeolje"), Str(" Charge ")}
KoreanAmountCells ==
    {Num(a) : a \in WonAmounts} \cup {NumText("#,###", 50000), Empty}

TravelWalletTables ==
    Tables(TravelWalletColumns,
           {TravelWalletRow(d, ty, Str("Lotte Mart"), a) :
               d \in KoreanDateCells, ty \in PaymentTypeCells, a \in KoreanAmountCells})

\* a TravelWallet table without a type column, its amount column unmarked
PlainWonColumns == <<"nalja(Date)", "gamaengjeom ireum(Name of the merchant)", "geumaek">>

PlainWonTables ==
    Tables(PlainWonColumns,
           {("nalja(Date)" :> d)
              @@ ("gamaengjeom ireum(Name of the merchant)" :> m)
              @@ ("geumaek" :> Num(a)) :
               d \in KoreanDateCells \cup {Empty}, m \in {Str("Lotte Mart"), Empty},
               a \in WonAmounts})

GenericColumns == <<"date", "description", "amount">>

GenericRow(d, a) ==
    ("date" :> d) @@ ("description" :> Str("Tesco")) @@ ("amount" :> a)

GenericDateCells == {DateText("%Y-%m-%d", d) : d \in Dates} \cup {Str("yesterday")}
GenericAmountCells == {Num(a) : a \in PoundAmounts \cup {0}} \cup {Str("n/a")}

GenericTables ==
    Tables(GenericColumns,
           {GenericRow(d, a) : d \in GenericDateCells, a \in GenericAmountCells})

\* a table without a date column: the amount is its first numeric column
UndatedTables ==
    Tables(<<"Desc", "Amt">>,
           {("Desc" :> Str("Tesco")) @@ ("Amt" :> a) : a \in {Num(x) : x \in PoundAmounts} \cup {Empty}})

\* a table with a date and an amount and nothing to name the merchant
BareTables ==
    Tables(<<"date", "amount">>,
           {("date" :> DateText("%Y-%m-%d", d)) @@ ("amount" :> Num(-5)) : d \in Dates})

\* a table with the Monzo names and the TravelWallet markers at once
MixedColumns == <<"Date", "jongryu(Payment type)", "wonhwageumaek(KRW)", "Amount">>

MixedTables ==
    Tables(MixedColumns,
           {("Date" :> DateText("%d/%m/%Y", d)) @@ ("jongryu(Payment type)" :> ty)
              @@ ("wonhwageumaek(KRW)" :> Num(50000)) @@ ("Amount" :> Num(a)) :
               d \in Dates, ty \in {Str("chungjeon"), Str("gyeolje")}, a \in PoundAmounts})

\* TravelWallet tables on one day, with every spelling of the type cell
ChargeTypeCells ==
    {Str("chungjeon"), Str("gyeolje"), Str(" Charge "), Str("charge (top-up)"),
     Str("CHARGE"), Empty}

ChargeTables ==
    Tables(TravelWalletColumns,
           {TravelWalletRow(DateText("%Y.%m.%d", 1), ty, Str("Lotte Mart"), Num(a)) :
               ty \in ChargeTypeCells, a \in WonAmounts})

\* a TravelWallet table whose amount column is unmarked and holds text
TextWonTables ==
    Tables(PlainWonColumns,
           {("nalja(Date)" :> d) @@ ("gamaengjeom ireum(Name of the merchant)" :> Str("Lotte Mart"))
              @@ ("geumaek" :> NumText("#,###", 50000)) :
               d \in {DateText("%Y.%m.%d", 1), Empty}})

\* a Monzo-like table without an 'Amount' column, with cells left empty
SparseMoneyTables ==
    Tables(MoneyColumns,
           {("Date" :> d) @@ ("Name" :> Str("Tesco")) @@ ("Money Out" :> out)
              @@ ("Money In" :> in) :
               d \in {DateText("%d/%m/%Y", 1), Empty}, out \in {Num(5), Num(-5), Empty},
               in \in {Num(7), Empty}})

\* a Monzo-like table with the signed 'Amount' alone
AmountOnlyTables ==
    Tables(<<"Date", "Amount">>,
           {("Date" :> DateText("%d/%m/%Y", d)) @@ ("Amount" :> Num(a)) :
               d \in Dates, a \in PoundAmounts \cup {0}})

\* a table with a date and nothing that holds an amount
DateOnlyTables ==
    Tables(<<"date", "description">>,
           {("date" :> d) @@ ("description" :> Str("Tesco")) :
               d \in {DateText("%Y-%m-%d", 1), Str("yesterday")}})

\* tables the Monzo branch takes that lack 'Money In', or 'Date'
OutOnlyTables ==
    Tables(<<"Date", "Money Out">>,
           {("Date" :> DateText("%d/%m/%Y", d)) @@ ("Money Out" :> Num(5)) : d \in Dates})

UndatedMonzoTables ==
    Tables(<<"Transaction ID", "Amount">>,
           {("Transaction ID" :> Str("tx")) @@ ("Amount" :> Num(a)) : a \in PoundAmounts})

\* the tables the branches of the upload normalizer are checked on
BranchTables ==
    MixedTables \cup ChargeTables \cup PlainWonTables \cup TextWonTables
    \cup MoneyTables \cup SparseMoneyTables \cup AmountOnlyTables \cup MonzoExportTables
    \cup GenericTables \cup UndatedTables \cup DateOnlyTables
    \cup BrokenMonzoTables \cup OutOnlyTables \cup UndatedMonzoTables

\* the tables the normalizers are checked on
NormTables ==
    MonzoExportTables \cup MoneyTables \cup BrokenMonzoTables
    \cup TravelWalletTables \cup PlainWonTables \cup GenericTables \cup UndatedTables
    \cup BareTables

----------------------------------------------------------------------------
(* The reader cache and the upload history (app.py 36-107) *)

\* no ledger file; _df_cache = None; _df_cache_time = None
NoFile == [exists |-> FALSE, header |-> FALSE, rows |-> <<>>, mtime |-> 0]
NoCache == [none |-> TRUE, rows |-> <<>>]
NoCacheTime == [none |-> TRUE, t |-> 0]
NoOperation == [op |-> "none", status |-> 0, stage |-> "", new |-> <<>>]

\* os.path.getmtime(COMBINED_CSV_PATH), 0 when it raises
FileMtime(f) == IF f.exists THEN f.mtime ELSE 0

\* a get_data that notes the file's time and keeps an empty frame
get_data_empty(f, cache, cache_time) ==
    IF cache.none \/ cache_time # [none |-> FALSE, t |-> FileMtime(f)] THEN
        IF ~f.exists THEN
            [cache |-> [none |-> FALSE, rows |-> <<>>], time |-> cache_time, raised |-> FALSE]
        ELSE IF LoadRaises(f) THEN
            [cache |-> cache, time |-> cache_time, raised |-> TRUE]
        ELSE
            [cache |-> [none |-> FALSE, rows |-> <<>>],
             time |-> [none |-> FALSE, t |-> FileMtime(f)], raised |-> FALSE]
    ELSE [cache |-> cache, time |-> cache_time, raised |-> FALSE]

\* a get_data that returns whatever it has cached
get_data_keeps_cache(f, cache, cache_time) ==
    IF cache.none THEN
        IF ~f.exists THEN
            [cache |-> [none |-> FALSE, rows |-> <<>>], time |-> cache_time, raised |-> FALSE]
        ELSE IF LoadRaises(f) THEN
            [cache |-> cache, time |-> cache_time, raised |-> TRUE]
        ELSE
            [cache |-> [none |-> FALSE, rows |-> load_combined_csv(f)],
             time |-> [none |-> FALSE, t |-> FileMtime(f)], raised |-> FALSE]
    ELSE [cache |-> cache, time |-> cache_time, raised |-> FALSE]

\* app.py 41-58.  The result is [cache, time, raised]: a load error other
\* than FileNotFoundError leaves the function by exception.
get_data(f, cache, cache_time) ==
    IF cache.none \/ cache_time # [none |-> FALSE, t |-> FileMtime(f)] THEN
        IF ~f.exists THEN
            [cache |-> [none |-> FALSE, rows |-> <<>>], time |-> cache_time, raised |-> FALSE]
        ELSE IF LoadRaises(f) THEN
            [cache |-> cache, time |-> cache_time, raised |-> TRUE]
        ELSE
            [cache |-> [none |-> FALSE, rows |-> load_combined_csv(f)],
             time |-> [none |-> FALSE, t |-> FileMtime(f)], raised |-> FALSE]
    ELSE [cache |-> cache, time |-> cache_time, raised |-> FALSE]

\* app.py 61-66
reload_data(f) == get_data(f, NoCache, NoCacheTime)

HistoryHas(history, filename) ==
    \E i \in 1..Len(history) : history[i].filename = filename

\* an upsert that overwrites the whole entry of a known filename
add_to_upload_history_overwrites(history, filename, bank, transactions, currency) ==
    IF HistoryHas(history, filename) THEN
        LET k == CHOOSE i \in 1..Len(history) :
                    /\ history[i].filename = filename
                    /\ \A j \in 1..(i - 1) : history[j].filename # filename
        IN  [history EXCEPT ![k] = [filename |-> filename, bank |-> bank,
                                    transactions |-> transactions,
                                    currency |-> currency, source |-> "upload"]]
    ELSE Append(history,
                [filename |-> filename, bank |-> bank, transactions |-> transactions,
                 currency |-> currency, source |-> "upload"])

\* app.py 86-107 (the timestamp of the entry is left out)
add_to_upload_history(history, filename, bank, transactions, currency) ==
    IF HistoryHas(history, filename) THEN
        LET k == CHOOSE i \in 1..Len(history) :
                    /\ history[i].filename = filename
                    /\ \A j \in 1..(i - 1) : history[j].filename # filename
        IN  [history EXCEPT ![k].transactions = transactions]
    ELSE Append(history,
                [filename |-> filename, bank |-> bank, transactions |-> transactions,
                 currency |-> currency, source |-> "upload"])

----------------------------------------------------------------------------
(* The ledger file under a write *)

\* The modification time a write gives the file.  The code only compares
\* modification times for equality, so a time is modelled up to that: a
\* write gives the file a time that neither the file nor the cache held.
WriteTime(f, cache_time) ==
    CHOOSE t \in 1..3 :
        /\ t # f.mtime /\ (cache_time.none \/ t # cache_time.t)
        /\ \A u \in 1..(t - 1) : u = f.mtime \/ (~cache_time.none /\ u = cache_time.t)

\* the first k elements of s (all of s when it has fewer)
Prefix(s, k) == SubSeq(s, 1, IF k > Len(s) THEN Len(s) ELSE k)

\* the outcomes of writing n lines: "ok"; the file cannot be opened; the
\* write fails after the header and k < n lines (-1: before the header)
WriteOutcomes(n) ==
    {[io |-> "ok", k |-> 0], [io |-> "open", k |-> 0]}
    \cup {[io |-> "write", k |-> k] : k \in -1..(n - 1)}

\* data_loader.py 197-211: df.to_csv(filepath) opens the ledger file itself
\* for writing, which truncates it, and writes the header and the lines
save_combined_csv(rows, f, cache_time, outcome) ==
    IF outcome.io = "open" THEN f
    ELSE [exists |-> TRUE,
          header |-> outcome.io = "ok" \/ outcome.k >= 0,
          rows |-> IF outcome.io = "ok" THEN CsvLines(rows)
                   ELSE Prefix(CsvLines(rows), outcome.k),
          mtime |-> WriteTime(f, cache_time)]

----------------------------------------------------------------------------
(* Reading an uploaded sheet (app.py 339-342, 383-400) *)

\* nrows=15 and range(min(15, len(test_df))): the rows scanned for a header
HeaderScanRows == 15

\* A sheet is a table written under a number of title rows:
\* [container, preamble, columns, rows].  Its raw rows, as
\* read_excel(header=None) gives them: the title rows, whose first cell holds
\* a text, then the header row, then the data rows.
TitleRow(width) == [j \in 1..width |-> IF j = 1 THEN Str("Statement") ELSE Empty]

RawRows(sheet) ==
    [i \in 1..sheet.preamble |-> TitleRow(Len(sheet.columns))]
    \o <<[j \in 1..Len(sheet.columns) |-> Str(sheet.columns[j])]>>
    \o [i \in 1..Len(sheet.rows) |->
            [j \in 1..Len(sheet.columns) |-> sheet.rows[i][sheet.columns[j]]]]

\* app.py 391-392: some cell of the row that is not missing spells a
\* header word
IsHeaderRow(raw_row) ==
    \E j \in 1..Len(raw_row) :
        /\ raw_row[j].t # "na"
        /\ \/ In("nalja", TextOf(raw_row[j]))
           \/ In("jongryu", TextOf(raw_row[j]))
           \/ In("gamaengjeom", TextOf(raw_row[j]))

NoHeaderRow == -1

\* a scan that keeps the last of the scanned rows that is a header row
DetectHeaderRowLast(raw) ==
    LET scanned == {i \in 1..Len(raw) : i <= HeaderScanRows}
        hits == {i \in scanned : IsHeaderRow(raw[i])}
    IN  IF hits = {} THEN NoHeaderRow
        ELSE (CHOOSE i \in hits : \A k \in hits : i >= k) - 1

\* app.py 385-394: the index of the first of the scanned rows that is a
\* header row, NoHeaderRow (None) without one
DetectHeaderRow(raw) ==
    LET scanned == {i \in 1..Len(raw) : i <= HeaderScanRows}
        hits == {i \in scanned : IsHeaderRow(raw[i])}
    IN  IF hits = {} THEN NoHeaderRow
        ELSE (CHOOSE i \in hits : \A k \in hits : i <= k) - 1

\* the name pandas gives the column at (0-based) position j under a header
\* cell
HeaderName(cell, j) ==
    IF cell.t # "na" THEN TextOf(cell)
    ELSE CASE j = 1 -> "Unnamed: 1" [] j = 2 -> "Unnamed: 2" [] OTHER -> "Unnamed: 3"

\* pd.read_excel(buffer, header=h) and pd.read_csv (h = 0): row h names the
\* columns and the rows after it are the data
ReadTable(raw, h) ==
    LET columns == [j \in 1..Len(raw[h + 1]) |-> HeaderName(raw[h + 1][j], j - 1)]
    IN  [columns |-> columns,
         rows |-> [i \in 1..(Len(raw) - h - 1) |->
                      [c \in Range(columns) |->
                          raw[h + 1 + i][CHOOSE j \in 1..Len(columns) : columns[j] = c]]]]

\* app.py 396-400
ReadExcel(sheet) ==
    LET h == DetectHeaderRow(RawRows(sheet))
    IN  ReadTable(RawRows(sheet), IF h = NoHeaderRow THEN 0 ELSE h)

\* app.py 342, 372, 383-400: the table api_upload hands to the normalizer.
\* The container of a sheet is "csv", "excel", or "encrypted": a CDFV2
\* container that the empty password opens, which is read with its top row as
\* the header (line 372).
ReadUpload(sheet) ==
    IF sheet.container \in {"csv", "encrypted"} THEN ReadTable(RawRows(sheet), 0)
    ELSE ReadExcel(sheet)

----------------------------------------------------------------------------
(* The upload handler (app.py 326-448) *)

\* app.py 419-421: the existing ledger and the new frame, concatenated, with
\* the later of equal rows dropped
MergeWithExisting(existing_df, new_df) == drop_duplicates(existing_df \o new_df)

\* app.py 414
IsEmptyFrame(rows) == Len(rows) = 0

\* what the handler has of the last request: the operation, its status, the
\* stage it ended in and the new frame
Answer(op, status, stage, new) ==
    [op |-> op, status |-> status, stage |-> stage, new |-> new]

\* a handler that drops the cache on its way out
RejectedDropsCache(f, cache, cache_time, history, status, stage) ==
    [csv_file |-> f, df_cache |-> NoCache, df_cache_time |-> NoCacheTime,
     upload_history |-> history,
     last |-> Answer("api_upload", status, stage, <<>>)]

\* what an upload that is answered before the save step leaves behind: the
\* handler has touched neither file nor cache
Rejected(f, cache, cache_time, history, status, stage) ==
    [csv_file |-> f, df_cache |-> cache, df_cache_time |-> cache_time,
     upload_history |-> history,
     last |-> Answer("api_upload", status, stage, <<>>)]

Filenames == {"", "notes.txt", "monzo.csv", "wallet.xlsx"}

Extension(filename) ==
    CASE filename = "monzo.csv" -> "csv"
      [] filename = "wallet.xlsx" -> "excel"
      [] OTHER -> "other"

\* the containers a request may carry: a readable table; bytes no reader
\* parses; a spreadsheet encrypted with a password other than ''
Containers == {"table", "unreadable", "locked"}

\* app.py 329-415: the stage at which the request is turned down, "" if it
\* reaches the merge
RejectedAt(request) ==
    IF ~request.has_file THEN "no file"
    ELSE IF request.filename = "" THEN "no name"
    ELSE IF Extension(request.filename) = "other" THEN "unsupported"
    ELSE IF Extension(request.filename) = "excel" /\ request.container = "locked"
        THEN "encrypted"
    ELSE IF request.container # "table" THEN "unreadable"
    ELSE IF normalize_uploaded_data(request.table, Extension(request.filename)).raised
        THEN "normalize"
    ELSE IF IsEmptyFrame(normalize_uploaded_data(request.table,
                                                 Extension(request.filename)).rows)
        THEN "empty"
    ELSE ""

\* the status of the answer: an exception reaches the handler's last except
\* clause (500), the other rejections are answered in place (400)
RejectionStatus(request, stage) ==
    IF stage = "normalize" \/ (stage = "unreadable" /\ Extension(request.filename) = "csv")
    THEN 500 ELSE 400

\* app.py 417-423: the frame the handler saves
Combined(f, new_df) ==
    IF LoadRaises(f) THEN new_df ELSE MergeWithExisting(load_combined_csv(f), new_df)

\* a handler that takes every table for a generic one once the history holds
\* an upload
api_upload_by_history(request, outcome, f, cache, cache_time, history) ==
    IF RejectedAt(request) # "" THEN
        Rejected(f, cache, cache_time, history,
                 RejectionStatus(request, RejectedAt(request)), RejectedAt(request))
    ELSE
    LET new_df == IF Len(history) > 0 THEN DropNaAll(MapRows(request.table, GenericRecord))
                  ELSE normalize_uploaded_data(request.table, Extension(request.filename)).rows
        combined == Combined(f, new_df)
        bank_type == new_df[1].bank
        currency == new_df[1].original_currency
        saved == save_combined_csv(combined, f, cache_time, outcome)
    IN
    IF outcome.io # "ok" THEN
        [csv_file |-> saved, df_cache |-> cache, df_cache_time |-> cache_time,
         upload_history |-> history,
         last |-> Answer("api_upload", 500, "save", new_df)]
    ELSE
        [csv_file |-> saved,
         df_cache |-> reload_data(saved).cache,
         df_cache_time |-> reload_data(saved).time,
         upload_history |->
            add_to_upload_history(history, request.filename, bank_type,
                                  Len(new_df), currency),
         last |-> Answer("api_upload", 200, "done", new_df)]

\* app.py 326-448.  request = [has_file, filename, container, table];
\* outcome is what the write of the save step meets.
api_upload(request, outcome, f, cache, cache_time, history) ==
    IF RejectedAt(request) # "" THEN
        Rejected(f, cache, cache_time, history,
                 RejectionStatus(request, RejectedAt(request)), RejectedAt(request))
    ELSE
    LET new_df == normalize_uploaded_data(request.table, Extension(request.filename)).rows
        combined == Combined(f, new_df)
        bank_type == new_df[1].bank
        currency == new_df[1].original_currency
        saved == save_combined_csv(combined, f, cache_time, outcome)
    IN
    IF outcome.io # "ok" THEN
        [csv_file |-> saved, df_cache |-> cache, df_cache_time |-> cache_time,
         upload_history |-> history,
         last |-> Answer("api_upload", 500, "save", new_df)]
    ELSE
        [csv_file |-> saved,
         df_cache |-> reload_data(saved).cache,
         df_cache_time |-> reload_data(saved).time,
         upload_history |->
            add_to_upload_history(history, request.filename, bank_type,
                                  Len(new_df), currency),
         last |-> Answer("api_upload", 200, "done", new_df)]

\* no table under normalization
NoTable == [columns |-> <<>>, rows |-> <<>>]
NotNormalized == [done |-> FALSE, loader |-> "", raised |-> FALSE, rows |-> <<>>]

LedgerInit ==
    /\ csv_file = NoFile
    /\ df_cache = NoCache
    /\ df_cache_time = NoCacheTime
    /\ upload_history = <<>>
    /\ last = NoOperation

LedgerVars == <<csv_file, df_cache, df_cache_time, upload_history, last>>

\* the threads of the server that may each serve an upload, and a thread
\* that serves none
Threads == {"a", "b"}
NoCall == [pc |-> "idle", filename |-> "", new_df |-> <<>>, combined |-> <<>>]
NoCalls == [t \in Threads |-> NoCall]

----------------------------------------------------------------------------
(* The CLI bootstrap (main_v1.py 25-88) *)

Crashed(f, cache, cache_time, history) ==
    [csv_file |-> f, df_cache |-> cache, df_cache_time |-> cache_time,
     upload_history |-> history,
     last |-> Answer("main_v1", 1, "crash", <<>>)]

\* main_v1.py 34-59: the frames normalize_and_merge may return for the tables
\* at MONZO_CSV_PATH and KOREAN_EXCEL_PATH (korean_present: the spreadsheet
\* is there and readable); none when a loader raises
MergedFrames(monzo, korean_present, korean) ==
    LET monzo_df == load_monzo_csv(monzo)
        korean_df == IF korean_present THEN load_korean_excel(korean) ELSE Frame(<<>>)
    IN  IF monzo_df.raised \/ korean_df.raised THEN {}
        ELSE normalize_and_merge(monzo_df.rows, korean_df.rows)

\* main_v1.py 59-65: combined_df is the merged frame, or none when the run
\* ended before (have = FALSE).  Saving the empty frame raises before the
\* file is opened.  The CLI is a process of its own: it writes the ledger
\* file and no cache.
main_v1(have, combined_df, outcome, f, cache, cache_time, history) ==
    IF ~have \/ Len(combined_df) = 0 THEN Crashed(f, cache, cache_time, history)
    ELSE [csv_file |-> save_combined_csv(combined_df, f, cache_time, outcome),
          df_cache |-> cache, df_cache_time |-> cache_time,
          upload_history |-> history,
          last |-> Answer("main_v1",
                          IF outcome.io = "ok" THEN 0 ELSE 1,
                          IF outcome.io = "ok" THEN "done" ELSE "save",
                          combined_df)]

----------------------------------------------------------------------------
(* The ledger: uploads, runs of the CLI and reads, in any order *)

\* the tables that reach the ledger hold dated spendings
LedgerTables ==
    Tables(GenericColumns,
           {GenericRow(DateText("%Y-%m-%d", d), Num(-5)) : d \in Dates})
    \cup Tables(MonzoExportColumns,
           {MonzoExportRow(DateText("%d/%m/%Y", d), Num(-5)) : d \in Dates})

\* a table the Monzo branch takes and cannot normalize
DateDescAmt ==
    [columns |-> <<"Date", "Desc", "Amt">>,
     rows |-> <<("Date" :> DateText("%d/%m/%Y", 1)) @@ ("Desc" :> Str("Tesco"))
                  @@ ("Amt" :> Num(-5))>>]

TableRequest(filename, t) ==
    [has_file |-> TRUE, filename |-> filename, container |-> "table", table |-> t]

\* the uploads of a table under the name monzo.csv
LedgerRequests == {TableRequest("monzo.csv", t) : t \in LedgerTables \cup {DateDescAmt}}

Ok == [io |-> "ok", k |-> 0]

Becomes(r) ==
    /\ csv_file' = r.csv_file
    /\ df_cache' = r.df_cache
    /\ df_cache_time' = r.df_cache_time
    /\ upload_history' = r.upload_history
    /\ last' = r.last

\* the length of the frame an accepted request has saved
SavedLength(request, f) ==
    Len(Combined(f, normalize_uploaded_data(request.table, Extension(request.filename)).rows))

\* a call of api_upload with one of the requests; with faults, the write of
\* the save step may fail
ApiUploadOf(requests, faults) ==
    \E request \in requests :
        IF RejectedAt(request) # "" THEN
            /\ Becomes(api_upload(request, Ok, csv_file, df_cache, df_cache_time,
                                  upload_history))
            /\ UNCHANGED <<table, normalized, calls>>
        ELSE
            /\ SavedLength(request, csv_file) <= MaxLedger
            /\ \E outcome \in IF faults THEN WriteOutcomes(SavedLength(request, csv_file))
                              ELSE {Ok} :
                  Becomes(api_upload(request, outcome, csv_file, df_cache, df_cache_time,
                                     upload_history))
            /\ UNCHANGED <<table, normalized, calls>>

\* a run of the CLI on one of the Monzo exports, with or without one of the
\* spreadsheets
MainV1Of(monzos, koreans, faults) ==
    \E monzo \in monzos, korean_present \in BOOLEAN, korean \in koreans :
        IF MergedFrames(monzo, korean_present, korean) = {} THEN
            /\ Becomes(main_v1(FALSE, <<>>, Ok, csv_file, df_cache, df_cache_time,
                               upload_history))
            /\ UNCHANGED <<table, normalized, calls>>
        ELSE
            \E combined_df \in MergedFrames(monzo, korean_present, korean) :
              \E outcome \in IF faults THEN WriteOutcomes(Len(combined_df)) ELSE {Ok} :
                /\ Len(combined_df) <= MaxLedger
                /\ Becomes(main_v1(TRUE, combined_df, outcome, csv_file, df_cache,
                                   df_cache_time, upload_history))
                /\ UNCHANGED <<table, normalized, calls>>

\* a read request: any endpoint that calls get_data()
GetData ==
    LET r == get_data(csv_file, df_cache, df_cache_time)
    IN  /\ df_cache' = r.cache
        /\ df_cache_time' = r.time
        /\ last' = Answer("get_data", IF r.raised THEN 500 ELSE 200, "done", <<>>)
        /\ UNCHANGED <<csv_file, upload_history, table, normalized, calls>>

Init ==
    /\ LedgerInit
    /\ table = NoTable
    /\ normalized = NotNormalized
    /\ calls = NoCalls

\* The ledger under uploads whose writes succeed
ApiUpload == ApiUploadOf(LedgerRequests, FALSE)

Next == ApiUpload

Spec == Init /\ [][Next]_vars

----------------------------------------------------------------------------
(* The service: every kind of request, failing writes, reads and runs of   *)
(* the CLI, on one-line tables                                             *)

GenericLine == [columns |-> GenericColumns,
                rows |-> <<GenericRow(DateText("%Y-%m-%d", 1), Num(-5))>>]
NoLines == [columns |-> GenericColumns, rows |-> <<>>]
MonzoLine == [columns |-> MonzoExportColumns,
              rows |-> <<MonzoExportRow(DateText("%d/%m/%Y", 1), Num(-5))>>]
TravelWalletLine ==
    [columns |-> TravelWalletColumns,
     rows |-> <<TravelWalletRow(DateText("%Y.%m.%d", 1), Str("gyeolje"), Str("Lotte Mart"),
                                Num(50000))>>]

ServiceRequests ==
    {[has_file |-> FALSE, filename |-> "", container |-> "table", table |-> NoTable]}
    \cup {TableRequest(fn, NoTable) : fn \in {"", "notes.txt"}}
    \cup {[has_file |-> TRUE, filename |-> fn, container |-> c, table |-> NoTable] :
            fn \in {"monzo.csv", "wallet.xlsx"}, c \in Containers \ {"table"}}
    \cup {TableRequest(fn, t) :
            fn \in {"monzo.csv", "wallet.xlsx"}, t \in {GenericLine, NoLines, DateDescAmt}}

Request == ApiUploadOf(ServiceRequests, TRUE)

MainV1 == MainV1Of({MonzoLine}, {TravelWalletLine}, TRUE)

ServiceNext == Request \/ GetData \/ MainV1

SpecService == Init /\ [][ServiceNext]_vars

----------------------------------------------------------------------------
(* The upload history under calls of add_to_upload_history *)

HistoryCalls ==
    [filename : {"monzo.csv", "wallet.xlsx"},
     bank : {"Monzo", "TravelWallet (Korea)"},
     transactions : 1..MaxRows,
     currency : {"GBP", "KRW"}]

\* app.py 86-107
AddToUploadHistory ==
    \E call \in HistoryCalls :
        /\ upload_history' = add_to_upload_history(upload_history, call.filename, call.bank,
                                                   call.transactions, call.currency)
        /\ last' = Answer("add_to_upload_history", 200, "done", <<call>>)
        /\ UNCHANGED <<csv_file, df_cache, df_cache_time, table, normalized, calls>>

HistoryNext == AddToUploadHistory

SpecHistory == Init /\ [][HistoryNext]_vars

----------------------------------------------------------------------------
(* Detection: sheets and tables uploaded onto whatever ledger, cache and   *)
(* history the earlier uploads have left.  The variable table keeps the     *)
(* sheet of the last upload.                                                *)

\* title rows above the header: none, eleven (the header on row 12 of a
\* TravelWallet export), and as many as the scan reads
Preambles == {0, 11, HeaderScanRows - 1, HeaderScanRows}

SheetOf(container, preamble, t) ==
    [container |-> container, preamble |-> preamble, columns |-> t.columns, rows |-> t.rows]

\* a TravelWallet statement in which the header line comes again among the
\* data rows
RepeatedHeaderTable ==
    [columns |-> TravelWalletColumns,
     rows |-> TravelWalletLine.rows
              \o <<TravelWalletRow(Str("nalja(Date)"), Str("jongryu(Payment type)"),
                                   Str("gamaengjeom ireum(Name of the merchant)"),
                                   Str("wonhwageumaek(KRW)"))>>]

DetectSheets ==
    {SheetOf("excel", k, TravelWalletLine) : k \in Preambles}
    \cup {SheetOf("excel", 11, RepeatedHeaderTable)}
    \cup {SheetOf("encrypted", k, TravelWalletLine) : k \in {0, 11}}
    \cup {SheetOf("excel", 0, t) : t \in {GenericLine, MonzoLine}}
    \cup {SheetOf("csv", 0, t) : t \in {GenericLine, MonzoLine, TravelWalletLine}}

SheetRequest(sheet) ==
    TableRequest(IF sheet.container = "csv" THEN "monzo.csv" ELSE "wallet.xlsx",
                 ReadUpload(sheet))

\* app.py 326-448 on a sheet
UploadSheet ==
    \E sheet \in DetectSheets :
        /\ RejectedAt(SheetRequest(sheet)) = ""
              => SavedLength(SheetRequest(sheet), csv_file) <= MaxLedger
        /\ Becomes(api_upload(SheetRequest(sheet), Ok, csv_file, df_cache, df_cache_time,
                              upload_history))
        /\ table' = sheet
        /\ UNCHANGED <<normalized, calls>>

DetectNext == UploadSheet

SpecDetect == Init /\ [][DetectNext]_vars

----------------------------------------------------------------------------
(* Two uploads served at once.  app.run (app.py 611) serves each request in *)
(* a thread of its own and api_upload takes no lock, so the calls           *)
(* interleave wherever one of them reads or writes the ledger file, the     *)
(* cache or the history.                                                    *)

\* one-row tables, which two calls may bring at once
ConcurrentTables ==
    {[columns |-> MonzoExportColumns,
      rows |-> <<MonzoExportRow(DateText("%d/%m/%Y", d), Num(-5))>>] : d \in Dates}
    \cup {[columns |-> GenericColumns,
           rows |-> <<GenericRow(DateText("%Y-%m-%d", d), Num(-5))>>] : d \in Dates}

\* app.py 338-423: the thread reads and normalizes its file, loads the
\* ledger and merges
LoadAndMerge(t) ==
    /\ calls[t].pc = "idle"
    /\ \E filename \in {"monzo.csv", "wallet.xlsx"}, tb \in ConcurrentTables :
          LET new_df == normalize_uploaded_data(tb, Extension(filename)).rows
          IN  calls' = [calls EXCEPT ![t] =
                            [pc |-> "merged", filename |-> filename, new_df |-> new_df,
                             combined |-> Combined(csv_file, new_df)]]
    /\ UNCHANGED <<LedgerVars, table, normalized>>

\* app.py 434
Save(t) ==
    /\ calls[t].pc = "merged"
    /\ csv_file' = save_combined_csv(calls[t].combined, csv_file, df_cache_time, Ok)
    /\ calls' = [calls EXCEPT ![t].pc = "saved"]
    /\ UNCHANGED <<df_cache, df_cache_time, upload_history, last, table, normalized>>

\* app.py 435
Reload(t) ==
    /\ calls[t].pc = "saved"
    /\ df_cache' = reload_data(csv_file).cache
    /\ df_cache_time' = reload_data(csv_file).time
    /\ calls' = [calls EXCEPT ![t].pc = "reloaded"]
    /\ UNCHANGED <<csv_file, upload_history, last, table, normalized>>

\* app.py 437-445
Respond(t) ==
    /\ calls[t].pc = "reloaded"
    /\ upload_history' =
          add_to_upload_history(upload_history, calls[t].filename, calls[t].new_df[1].bank,
                                Len(calls[t].new_df), calls[t].new_df[1].original_currency)
    /\ last' = Answer("api_upload", 200, "done", calls[t].new_df)
    /\ calls' = [calls EXCEPT ![t].pc = "done"]
    /\ UNCHANGED <<csv_file, df_cache, df_cache_time, table, normalized>>

ConcurrentNext ==
    \E t \in Threads : LoadAndMerge(t) \/ Save(t) \/ Reload(t) \/ Respond(t)

SpecConcurrent == Init /\ [][ConcurrentNext]_vars

----------------------------------------------------------------------------
(* Aggregation (analyzer.py) *)

\* series.sum() of amount_gbp over the rows with is_income = income; a
\* missing amount is skipped
RECURSIVE SumAmounts(_, _)
SumAmounts(rows, income) ==
    IF Len(rows) = 0 THEN 0
    ELSE LET r == rows[1]
         IN  (IF r.is_income = income /\ ~IsNaN(r.amount_gbp) THEN r.amount_gbp ELSE 0)
             + SumAmounts(Tail(rows), income)

\* len(df[df['is_income'] == income])
CountRows(rows, income) == Cardinality({i \in 1..Len(rows) : rows[i].is_income = income})

\* analyzer.py 98-116, without the two averages
get_income_vs_spending(rows) ==
    [total_spending |-> Abs(SumAmounts(rows, FALSE)),
     total_income |-> SumAmounts(rows, TRUE),
     net_cash_flow |-> SumAmounts(rows, TRUE) + SumAmounts(rows, FALSE),
     spending_count |-> CountRows(rows, FALSE),
     income_count |-> CountRows(rows, TRUE)]

----------------------------------------------------------------------------
(* The consumers of the cached ledger (analyzer.py, app.py 138-307).  A     *)
(* consumer works on the frame object that get_data returns, which is the   *)
(* cache itself (app.py 58).  Its result is [df, raised, out]: what that    *)
(* object holds when the consumer returns, whether it raised, its answer.   *)

\* df[col] = F(row), for every row of the frame
WithColumn(rows, col, F(_)) == [i \in 1..Len(rows) |-> (col :> F(rows[i])) @@ rows[i]]

\* dt.to_period('M'): the month of a day, the months of the model's calendar
\* having DaysPerMonth days
DaysPerMonth == 2

ToPeriodM(d) == IF d = NaT THEN NaT ELSE (d + DaysPerMonth - 1) \div DaysPerMonth

\* series.sum() of amount_gbp over all rows
SumAll(rows) == SumAmounts(rows, TRUE) + SumAmounts(rows, FALSE)

\* series.abs().sum() of amount_gbp
RECURSIVE SumAbs(_)
SumAbs(rows) ==
    IF Len(rows) = 0 THEN 0
    ELSE (IF IsNaN(rows[1].amount_gbp) THEN 0 ELSE Abs(rows[1].amount_gbp))
         + SumAbs(Tail(rows))

\* the keys groupby(key) makes groups of: a missing key is in no group
GroupKeys(rows, key) ==
    {rows[i][key] : i \in 1..Len(rows)}
        \ (IF key \in {"category", "merchant"} THEN {NA} ELSE {NaT})

\* analyzer.py 20-31: the sums of the spendings and of the incomes by key,
\* joined with 0 for a side without rows, and their difference (the order of
\* the summary's rows is left out)
GroupSummary(rows, key) ==
    {LET of_k == SelectSeq(rows, LAMBDA r : r[key] = k)
     IN  [period |-> k,
          spending |-> Abs(SumAmounts(of_k, FALSE)),
          income |-> SumAmounts(of_k, TRUE),
          net |-> SumAmounts(of_k, TRUE) - Abs(SumAmounts(of_k, FALSE))] :
        k \in GroupKeys(rows, key)}

\* analyzer.py 81-86, 128-133: sum and count of amount_gbp by key, the sum
\* made positive
GroupTotals(rows, key) ==
    {LET of_k == SelectSeq(rows, LAMBDA r : r[key] = k)
     IN  [key |-> k,
          total |-> Abs(SumAll(of_k)),
          count |-> Cardinality({i \in 1..Len(of_k) : ~IsNaN(of_k[i].amount_gbp)})] :
        k \in GroupKeys(rows, key)}

Returns(df, out) == [df |-> df, raised |-> FALSE, out |-> out]

\* analyzer.py 9-33: the summary is made on a copy of the frame
get_daily_summary(df) ==
    LET copy == WithColumn(df, "date_only", LAMBDA r : r.date)
    IN  Returns(df, GroupSummary(copy, "date_only"))

\* a monthly summary that adds its column to the frame it was given
get_monthly_summary_in_place(df) ==
    LET work == WithColumn(df, "year_month", LAMBDA r : ToPeriodM(r.date))
    IN  Returns(work, GroupSummary(work, "year_month"))

\* analyzer.py 36-60: the summary is made on a copy of the frame
get_monthly_summary(df) ==
    LET copy == WithColumn(df, "year_month", LAMBDA r : ToPeriodM(r.date))
    IN  Returns(df, GroupSummary(copy, "year_month"))

\* analyzer.py 63-95, without the percentage: the spendings are a copy
get_category_breakdown(df) ==
    LET spending_df == SelectSeq(df, LAMBDA r : ~r.is_income)
    IN  Returns(df, GroupTotals(spending_df, "category"))

\* analyzer.py 119-135: the model's ledgers have fewer than n = 10 merchants
get_top_merchants(df) ==
    LET spending_df == SelectSeq(df, LAMBDA r : ~r.is_income)
    IN  Returns(df, GroupTotals(spending_df, "merchant"))

\* app.py 138-152: min() and max() skip missing dates; strftime raises on
\* NaT, the result when every date is missing
api_summary(df) ==
    LET dates == {df[i].date : i \in 1..Len(df)} \ {NaT}
    IN  IF dates = {} THEN [df |-> df, raised |-> TRUE, out |-> <<>>]
        ELSE Returns(df,
                     [summary |-> get_income_vs_spending(df),
                      date_from |-> CHOOSE d \in dates : \A e \in dates : d <= e,
                      date_to |-> CHOOSE d \in dates : \A e \in dates : d >= e,
                      transaction_count |-> Len(df)])

\* app.py 265-307: the date and month columns are set on a copy; the model's
\* ledgers have fewer than five categories
api_trends(df) ==
    LET copy == WithColumn(WithColumn(df, "date", LAMBDA r : r.date),
                           "month", LAMBDA r : ToPeriodM(r.date))
        top_cats == {g.key : g \in get_category_breakdown(copy).out}
        spending == SelectSeq(copy, LAMBDA r : ~r.is_income /\ r.category \in top_cats)
    IN  Returns(df,
                {[month |-> m, category |-> c,
                  amount |-> Abs(SumAll(SelectSeq(spending,
                                    LAMBDA r : r.month = m /\ r.category = c)))] :
                    m \in GroupKeys(spending, "month"), c \in GroupKeys(spending, "category")})

\* str.lower() on the category names of the model
Lower(name) ==
    CASE name = "Groceries" -> "groceries"
      [] name = "Other" -> "other"
      [] name = "Lotte Mart" -> "lotte mart"
      [] OTHER -> name

\* app.py 206-250: the rows of the category are a copy, and the period
\* column is set on it
api_category_detail(df, name, period) ==
    LET cat_df == SelectSeq(df, LAMBDA r : r.category # NA /\ Lower(r.category) = Lower(name))
        work == WithColumn(cat_df, "period",
                           LAMBDA r : IF period = "daily" THEN r.date ELSE ToPeriodM(r.date))
    IN  IF Len(cat_df) = 0 THEN Returns(df, [error |-> "not found"])
        ELSE IF period \notin {"daily", "monthly"} THEN Returns(df, [error |-> "invalid period"])
        ELSE Returns(df,
                     [chart_data |->
                         {[period |-> k,
                           amount |-> Abs(SumAll(SelectSeq(work, LAMBDA r : r.period = k)))] :
                             k \in GroupKeys(work, "period")},
                      total |-> SumAbs(cat_df),
                      count |-> Len(cat_df)])

Endpoints ==
    {"api_summary", "api_monthly", "api_categories", "api_merchants", "api_trends",
     "api_category_detail", "get_daily_summary"}

\* what the endpoint does with the frame that get_data gave it
Consume(endpoint, name, period, df) ==
    CASE endpoint = "api_summary" -> api_summary(df)
      [] endpoint = "api_monthly" -> get_monthly_summary(df)
      [] endpoint = "api_categories" -> get_category_breakdown(df)
      [] endpoint = "api_merchants" -> get_top_merchants(df)
      [] endpoint = "api_trends" -> api_trends(df)
      [] endpoint = "api_category_detail" -> api_category_detail(df, name, period)
      [] OTHER -> get_daily_summary(df)

----------------------------------------------------------------------------
(* The reader cache: read requests between uploads, whose writes may fail,  *)
(* and runs of the CLI, which writes the ledger file behind the cache       *)

CacheRequests == {TableRequest("monzo.csv", t) : t \in {GenericLine, MonzoLine}}

CacheUpload == ApiUploadOf(CacheRequests, TRUE)

CacheCli == MainV1Of({MonzoLine}, {TravelWalletLine}, FALSE)

\* app.py 138-307: a read request.  The endpoint takes the frame from
\* get_data, answers 'No data loaded' on an empty one, and otherwise hands
\* the frame to its consumer.
ReadRequest ==
    \E endpoint \in Endpoints, name \in {"groceries", "Lotte Mart", "rent"},
       period \in {"daily", "monthly", "weekly"} :
        LET g == get_data(csv_file, df_cache, df_cache_time)
            c == Consume(endpoint, name, period, g.cache.rows)
        IN  /\ df_cache_time' = g.time
            /\ IF g.raised THEN
                   /\ df_cache' = g.cache
                   /\ last' = Answer(endpoint, 500, "get_data", <<>>)
               ELSE IF Len(g.cache.rows) = 0 THEN
                   /\ df_cache' = g.cache
                   /\ last' = Answer(endpoint, 200, "no data", <<>>)
               ELSE
                   /\ df_cache' = [none |-> FALSE, rows |-> c.df]
                   /\ last' = Answer(endpoint, IF c.raised THEN 500 ELSE 200, "done",
                                     <<c.out>>)
            /\ UNCHANGED <<csv_file, upload_history, table, normalized, calls>>

CacheNext == GetData \/ ReadRequest \/ CacheUpload \/ CacheCli

SpecCache == Init /\ [][CacheNext]_vars

----------------------------------------------------------------------------
(* The normalizers on their own: every table of NormTables, through the     *)
(* upload normalizer and through each CLI loader                            *)

Result(loader, frame) ==
    [done |-> TRUE, loader |-> loader, raised |-> frame.raised, rows |-> frame.rows]

NormInit ==
    /\ LedgerInit
    /\ table \in NormTables
    /\ normalized = NotNormalized
    /\ calls = NoCalls

NormalizeUploaded ==
    /\ ~normalized.done
    /\ normalized' = Result("normalize_uploaded_data", normalize_uploaded_data(table, "csv"))
    /\ UNCHANGED <<table, LedgerVars, calls>>

\* the file at MONZO_CSV_PATH is a Monzo export
LoadMonzoCsv ==
    /\ ~normalized.done
    /\ table.columns = MonzoExportColumns
    /\ normalized' = Result("load_monzo_csv", load_monzo_csv(table))
    /\ UNCHANGED <<table, LedgerVars, calls>>

\* the file at KOREAN_EXCEL_PATH is a TravelWallet export: a table of
\* TravelWalletTables, ChargeTables or PlainWonTables
LoadKoreanExcel ==
    /\ ~normalized.done
    /\ \/ table.columns = TravelWalletColumns
       \/ /\ table.columns = PlainWonColumns
          /\ \A i \in 1..Len(table.rows) : table.rows[i]["geumaek"].t = "num"
    /\ normalized' = Result("load_korean_excel", load_korean_excel(table))
    /\ UNCHANGED <<table, LedgerVars, calls>>

\* data_loader.py 197-211 on the frame a normalizer has produced, where no
\* ledger file is yet
SaveCombinedCsv ==
    /\ normalized.done /\ ~normalized.raised
    /\ Len(normalized.rows) > 0
    /\ ~csv_file.exists
    /\ csv_file' = save_combined_csv(normalized.rows, csv_file, df_cache_time, Ok)
    /\ UNCHANGED <<df_cache, df_cache_time, upload_history, last, table, normalized, calls>>

\* data_loader.py 214-224 on the file just saved
LoadCombinedCsv ==
    /\ csv_file.exists /\ ~LoadRaises(csv_file)
    /\ df_cache.none
    /\ df_cache' = [none |-> FALSE, rows |-> load_combined_csv(csv_file)]
    /\ UNCHANGED <<csv_file, df_cache_time, upload_history, last, table, normalized, calls>>

\* a later cycle: the loaded frame is saved over the file (app.py 434 on a
\* frame that came from load_combined_csv)
SaveAgain ==
    /\ ~df_cache.none /\ Len(df_cache.rows) > 0
    /\ csv_file.exists
    /\ csv_file' = save_combined_csv(df_cache.rows, csv_file, df_cache_time, Ok)
    /\ df_cache' = NoCache
    /\ UNCHANGED <<df_cache_time, upload_history, last, table, normalized, calls>>

\* analyzer.py 98-116 on the loaded frame
Summarize ==
    /\ ~df_cache.none
    /\ last' = Answer("get_income_vs_spending", 200, "done",
                      <<get_income_vs_spending(df_cache.rows)>>)
    /\ UNCHANGED <<csv_file, df_cache, df_cache_time, upload_history, table, normalized, calls>>

NormNext ==
    \/ NormalizeUploaded \/ LoadMonzoCsv \/ LoadKoreanExcel
    \/ SaveCombinedCsv \/ LoadCombinedCsv \/ SaveAgain \/ Summarize

SpecNorm == NormInit /\ [][NormNext]_vars

----------------------------------------------------------------------------
(* The branches of the upload normalizer, and the CLI loader beside the     *)
(* TravelWallet branch, on tables that tell the branches apart              *)

BranchInit ==
    /\ LedgerInit
    /\ table \in BranchTables
    /\ normalized = NotNormalized
    /\ calls = NoCalls

BranchNext == NormalizeUploaded \/ LoadKoreanExcel

SpecBranch == BranchInit /\ [][BranchNext]_vars

\* the records a normalizer has produced
Produced == IF normalized.done /\ ~normalized.raised THEN Range(normalized.rows) ELSE {}

----------------------------------------------------------------------------
(* Claims about the ledger under uploads *)

\* the ingest of this step is an upload answered with 200
UploadedNow == last'.op = "api_upload" /\ last'.status = 200

\* the ledger file holds the frame of an upload answered with 200
Uploaded == last.op = "api_upload" /\ last.status = 200

\* the persisted form of the records of a frame
Persisted(rows) == {WriteRow(r) : r \in Range(rows)}

\* C1: an upload whose existing ledger loads leaves, in the ledger file,
\* exactly the distinct records of the existing ledger and the new batch,
\* each once (100 records and 10 new of which 3 are there already: 107).
C1_MergeResult ==
    [][(UploadedNow /\ ~LoadRaises(csv_file))
          => LET merged == Persisted(load_combined_csv(csv_file)) \cup Persisted(last'.new)
             IN  /\ Len(csv_file'.rows) = Cardinality(merged)
                 /\ Range(csv_file'.rows) = merged]_vars

\* C2: after a successful ingest the persisted ledger is sorted ascending
\* by date.
C2_SortedAfterIngest ==
    Uploaded => IsSortedByDate(load_combined_csv(csv_file))

\* C3: after any sequence of successful ingests, the first one included, the
\* persisted ledger holds no two records equal in every field.
C3_NoDuplicates ==
    Uploaded =>
        LET rows == load_combined_csv(csv_file)
        IN  \A i, j \in 1..Len(rows) : rows[i] = rows[j] => i = j

\* C4: uploading the same input twice in succession leaves a ledger of as
\* many records as uploading it once.
C4_IdempotentIngest ==
    [][(Uploaded /\ UploadedNow /\ last'.new = last.new)
          => Len(csv_file'.rows) = Len(csv_file.rows)]_vars

\* C11: an upload that finds the ledger absent or unloadable succeeds and
\* persists the merge of the empty ledger with the new batch: the new records
\* de-duplicated and sorted by date.
C11_MissingLedgerIsEmpty ==
    [][(last'.op = "api_upload" /\ last'.stage \in {"done", "save"} /\ LoadRaises(csv_file))
          => /\ last'.status = 200
             /\ \E sorted \in SortValuesDate(drop_duplicates(last'.new)) :
                    csv_file'.rows = CsvLines(sorted)]_vars

\* the ingest of this step, an upload or a run of the CLI, has succeeded
IngestedNow ==
    \/ last'.op = "api_upload" /\ last'.status = 200
    \/ last'.op = "main_v1" /\ last'.status = 0

\* C12: across successful ingests, uploads and runs of the CLI in any order,
\* a record of the persisted ledger is in every later persisted ledger.
C12_AppendGrowing ==
    [][(IngestedNow /\ ~LoadRaises(csv_file))
          => Range(csv_file.rows) \subseteq Range(csv_file'.rows)]_vars

\* C13: when two concurrent uploads have both been answered with success, the
\* persisted ledger holds the records of both batches and the cache that
\* get_data returns is that ledger.
C13_OneWriterAtATime ==
    (\A t \in Threads : calls[t].pc = "done")
        => /\ \A t \in Threads : Persisted(calls[t].new_df) \subseteq Range(csv_file.rows)
           /\ get_data(csv_file, df_cache, df_cache_time).cache.rows
                = load_combined_csv(csv_file)

\* C15: after an upload answered with success, the next get_data call
\* returns the ledger that the upload persisted.
C15_ReadAfterIngest ==
    Uploaded =>
        LET r == get_data(csv_file, df_cache, df_cache_time)
        IN  ~r.raised /\ r.cache.rows = load_combined_csv(csv_file)

\* an upload onto a ledger that held a record has been answered with success
C15_Witness ==
    /\ Uploaded
    /\ Len(csv_file.rows) > Len(last.new)
    /\ get_data(csv_file, df_cache, df_cache_time).cache.rows = load_combined_csv(csv_file)

\* C16: after a call of add_to_upload_history the history holds at most one
\* entry per filename and the entry of the call's filename carries the call's
\* transaction count; a repeat call changes only that entry's transactions
\* and leaves its bank, currency and source and all other entries unchanged.
C16_HistoryUpsert ==
    [][last'.op = "add_to_upload_history"
          => LET call == last'.new[1]
                 before == upload_history
                 after == upload_history'
             IN  /\ \A i, j \in 1..Len(after) :
                        after[i].filename = after[j].filename => i = j
                 /\ \E i \in 1..Len(after) :
                        /\ after[i].filename = call.filename
                        /\ after[i].transactions = call.transactions
                 /\ Len(after) >= Len(before)
                 /\ \A i \in 1..Len(before) :
                        IF before[i].filename = call.filename
                        THEN after[i] = [before[i] EXCEPT !.transactions = call.transactions]
                        ELSE after[i] = before[i]]_vars

\* a repeat call for a known filename, with another bank and currency, has
\* left the entry's bank and currency as they were, beside another entry
C16_Witness ==
    /\ last.op = "add_to_upload_history"
    /\ Len(upload_history) > 1
    /\ \E i \in 1..Len(upload_history) :
          /\ upload_history[i].filename = last.new[1].filename
          /\ upload_history[i].transactions = last.new[1].transactions
          /\ upload_history[i].bank # last.new[1].bank
          /\ upload_history[i].currency # last.new[1].currency

\* the bank that the normalizer writes for a format
BankOf(format) ==
    CASE format = "Monzo" -> "Monzo"
      [] format = "Korean" -> "TravelWallet (Korea)"
      [] OTHER -> "Uploaded"

AnswersAsRead(sheet, h) ==
    LET out == normalize_uploaded_data(ReadTable(RawRows(sheet), h), "excel")
    IN  IF out.raised THEN last.status = 500
        ELSE IF Len(out.rows) = 0 THEN last.status = 400
        ELSE last.status = 200 /\ last.new = out.rows

\* the first of the first 15 rows with a cell that spells a header word, the
\* top row when there is none
FirstMarkedRow(raw) ==
    LET marked == {i \in 1..Len(raw) : i <= 15 /\ IsHeaderRow(raw[i])}
    IN  IF marked = {} THEN 0 ELSE (CHOOSE i \in marked : \A k \in marked : i <= k) - 1

\* C25: the header row of an unencrypted spreadsheet is the first of its
\* first 15 rows with a cell that holds nalja, jongryu or gamaengjeom; a row
\* after index 14 is never chosen; without such a row the top row is the
\* header.  The upload answers as the sheet read under that header does.
C25_HeaderRowDetection ==
    (last.op = "api_upload" /\ table.container = "excel")
        => /\ AnswersAsRead(table, FirstMarkedRow(RawRows(table)))
           /\ (table.preamble <= 14 /\ IsKorean(table))
                 => FirstMarkedRow(RawRows(table)) = table.preamble
           /\ table.preamble > 14 => FirstMarkedRow(RawRows(table)) = 0

\* a sheet whose header is on the last scanned row, index 14, has been read
\* under it
C25_Witness ==
    /\ last.op = "api_upload" /\ last.status = 200
    /\ table.container = "excel" /\ table.preamble = 14
    /\ last.new[1].bank = "TravelWallet (Korea)"

\* C26: a spreadsheet in an encrypted container that the empty password
\* opens goes through the same header-row detection and classification as
\* the same sheet unencrypted: the upload answers as that one does.
C26_EncryptedPath ==
    (last.op = "api_upload" /\ table.container = "encrypted")
        => AnswersAsRead(table, FirstMarkedRow(RawRows(table)))

\* the cache was loaded for the time the ledger file now has
CacheIsCurrent ==
    ~df_cache.none /\ df_cache_time = [none |-> FALSE, t |-> FileMtime(csv_file)]

\* C27: a get_data call that returns gives the ledger file's content as
\* loaded for the file's current modification time: it loads the file
\* whenever that time differs from the cached one, gives the cached ledger
\* only for an unchanged time, and gives the empty ledger while the file is
\* absent; a file created later is loaded by the next call.
C27_CacheCoherence ==
    [][(last'.op = "get_data" /\ last'.status = 200)
          => /\ ~df_cache'.none
             /\ ~csv_file.exists => df_cache'.rows = <<>>
             /\ csv_file.exists =>
                   /\ df_cache'.rows = load_combined_csv(csv_file)
                   /\ df_cache_time' = [none |-> FALSE, t |-> csv_file.mtime]
             /\ CacheIsCurrent => df_cache' = df_cache]_vars

\* get_data has loaded a ledger file that was written more than once behind
\* the cache, no upload having succeeded
C27_Witness ==
    /\ last.op = "get_data" /\ last.status = 200
    /\ upload_history = <<>>
    /\ csv_file.mtime > 1
    /\ Len(df_cache.rows) > 0
    /\ df_cache.rows = load_combined_csv(csv_file)
    /\ df_cache_time = [none |-> FALSE, t |-> csv_file.mtime]

C9_FailureAtomicity ==
    [][(last'.op = "api_upload" /\ last'.status # 200) => csv_file' = csv_file]_vars

\* C10: an upload answered with an error before the save step leaves the
\* ledger file, the cache and the upload history as they were.
C10_RejectedUnchanged ==
    [][(last'.op = "api_upload" /\ last'.status # 200 /\ last'.stage # "save")
          => UNCHANGED <<csv_file, df_cache, df_cache_time, upload_history>>]_vars

\* an upload has been turned down for its zero records while a ledger file,
\* a loaded cache and an upload history were there
C10_Witness ==
    /\ last.op = "api_upload" /\ last.status = 400 /\ last.stage = "empty"
    /\ csv_file.exists /\ ~df_cache.none /\ Len(upload_history) > 0

----------------------------------------------------------------------------
(* Claims about the store *)

\* C5: loading what save_combined_csv wrote gives the records de-duplicated
\* by full-record equality and sorted ascending by date.
C5_StoreRoundTrip ==
    ~df_cache.none => df_cache.rows \in SortValuesDate(drop_duplicates(normalized.rows))

----------------------------------------------------------------------------
(* Claims about the normalizers' output *)

\* a record in a foreign currency whose amounts are numbers
IsForeign(r) ==
    r.original_currency = "KRW" /\ ~IsNaN(r.amount_gbp) /\ ~IsNaN(r.original_amount)

\* the amount of a foreign record when the rate is applied once
ConvertedOnce(r) == Sign(r.amount_gbp) * TimesRate(Abs(r.original_amount))

RECURSIVE SumConvertedOnce(_)
SumConvertedOnce(rows) ==
    IF Len(rows) = 0 THEN 0
    ELSE (IF IsForeign(rows[1]) THEN ConvertedOnce(rows[1]) ELSE 0)
         + SumConvertedOnce(Tail(rows))

C18_DateRequired ==
    /\ \A r \in Produced : r.date # NaT
    /\ \A r \in Range(df_cache.rows) : r.date # NaT
    /\ (normalized.loader = "normalize_uploaded_data" /\ DetectFormat(table) = "Korean")
          => \A r \in Produced : ~IsNaN(r.amount_gbp)

\* the columns a branch of normalize_uploaded_data may take the merchant from
IsMerchantColumn(c) ==
    \/ c = "Name" \/ In("gamaengjeom", c)
    \/ InLower("name", c) \/ InLower("merchant", c) \/ InLower("description", c)

\* the columns a branch may take the category from
IsCategoryColumn(c) ==
    \/ c = "Category" \/ In("gamaengjeom", c)
    \/ InLower("category", c) \/ InLower("type", c)

\* row i of the table has no value in any of the columns P selects
NoValueIn(df, i, P(_)) ==
    \A j \in 1..Len(df.columns) : P(df.columns[j]) => df.rows[i][df.columns[j]].t = "na"

\* C19: in the output of normalize_uploaded_data, a record whose source row
\* has no merchant value has merchant "Unknown", and one whose source row has
\* no category value has category "Other".
C19_FieldDefaults ==
    (/\ normalized.loader = "normalize_uploaded_data" /\ ~normalized.raised
     /\ Len(normalized.rows) = Len(table.rows))
        => \A i \in 1..Len(table.rows) :
              /\ NoValueIn(table, i, IsMerchantColumn) => normalized.rows[i].merchant = "Unknown"
              /\ NoValueIn(table, i, IsCategoryColumn) => normalized.rows[i].category = "Other"

\* C20: a table with exactly the columns Date, Desc, Amt is classified as
\* generic and normalized, its merchant the empty default and its amount
\* taken from the first numeric column.
C20_GenericMappingScenario ==
    (/\ normalized.loader = "normalize_uploaded_data"
     /\ table.columns = <<"Date", "Desc", "Amt">> /\ Len(table.rows) > 0)
        => /\ DetectFormat(table) = "Generic"
           /\ ~normalized.raised
           /\ Len(normalized.rows) = Len(table.rows)
           /\ \A i \in 1..Len(normalized.rows) :
                 /\ normalized.rows[i].bank = "Uploaded"
                 /\ normalized.rows[i].merchant = ""
                 /\ normalized.rows[i].amount_gbp = ToNumeric(table.rows[i]["Amt"])

\* the upload normalizer has normalized the table
Normalized == normalized.done /\ normalized.loader = "normalize_uploaded_data"

HasMonzoName(df) == \E i \in 1..Len(df.columns) : df.columns[i] \in {"Transaction ID", "Date"}

HasKoreanMarker(df) ==
    \E i \in 1..Len(df.columns) :
        MarkersIn(df.columns[i]) \cap {"gamaengjeom", "jongryu", "wonhwageumaek"} # {}

\* C21: the format predicates are tried in a fixed order and the first match
\* wins: a table with a 'Transaction ID' or 'Date' column is normalized by
\* the Monzo branch even when it carries TravelWallet markers, otherwise one
\* with a TravelWallet marker by the TravelWallet branch, otherwise by the
\* generic branch; every record of the output is of that one branch.
C21_ClassificationPriority ==
    Normalized =>
        IF HasMonzoName(table) THEN
            \A r \in Produced : r.bank = "Monzo" /\ r.original_currency = "GBP"
        ELSE IF HasKoreanMarker(table) THEN
            /\ ~normalized.raised
            /\ \A r \in Produced : r.bank = "TravelWallet (Korea)" /\ r.original_currency = "KRW"
        ELSE
            /\ ~normalized.raised
            /\ \A r \in Produced : r.bank \in {"Uploaded", NA} /\ r.original_currency = "GBP"

\* a table with a 'Date' column and TravelWallet markers has been normalized
\* into Monzo records
C21_Witness ==
    /\ Normalized /\ ~normalized.raised
    /\ HasMonzoName(table) /\ HasKoreanMarker(table)
    /\ Len(normalized.rows) = MaxRows
    /\ \A r \in Produced : r.bank = "Monzo"

\* the first column of the table with P holds, in row r, a cell that Parse
\* reads
ParsesIn(df, r, P(_), Parse(_)) ==
    LET cs == SelectSeq(df.columns, P)
    IN  Len(cs) > 0 /\ Parse(r[cs[1]])

IsNumber(c) == c.t = "num"

\* the date cell of the source row spells a date the branch reads
DateParses(df, r) ==
    IF HasMonzoName(df) THEN
        ParsesIn(df, r, LAMBDA c : c = "Date", LAMBDA c : ToDatetimeDMY(c) # NaT)
    ELSE IF HasKoreanMarker(df) THEN
        ParsesIn(df, r, LAMBDA c : In("nalja", c) \/ InLower("date", c),
                 LAMBDA c : ToDatetimeDotted(c) # NaT)
    ELSE
        ParsesIn(df, r, LAMBDA c : InLower("date", c), LAMBDA c : ToDatetime(c) # NaT)

\* an amount cell of the source row spells a number the branch reads
AmountParses(df, r) ==
    IF HasMonzoName(df) THEN
        IF HasColumn(df, "Amount") THEN ~IsNaN(ToNumeric(r["Amount"]))
        ELSE \/ ParsesIn(df, r, LAMBDA c : c = "Money In", LAMBDA c : ~IsNaN(ToNumeric(c)))
             \/ ParsesIn(df, r, LAMBDA c : c = "Money Out", LAMBDA c : ~IsNaN(ToNumeric(c)))
    ELSE IF HasKoreanMarker(df) THEN
        IF \E i \in 1..Len(df.columns) : MarkersIn(df.columns[i]) \cap {"wonhwageumaek", "KRW"} # {}
        THEN ParsesIn(df, r, LAMBDA c : In("wonhwageumaek", c) \/ In("KRW", c),
                      LAMBDA c : ~IsNaN(ToNumericStripped(c)))
        ELSE /\ Len(NumericColumns(df)) > 0
             /\ IsNumber(r[NumericColumns(df)[Len(NumericColumns(df))]])
    ELSE
        IF \E i \in 1..Len(df.columns) : MarkersInLower(df.columns[i]) \cap {"amount", "value"} # {}
        THEN ParsesIn(df, r, LAMBDA c : InLower("amount", c) \/ InLower("value", c),
                      LAMBDA c : ~IsNaN(ToNumeric(c)))
        ELSE /\ Len(NumericColumns(df)) > 0
             /\ IsNumber(r[NumericColumns(df)[1]])

\* C22: in every branch of normalize_uploaded_data a row is dropped if and
\* only if both its date and its amount failed to parse: the output holds one
\* record for each source row whose date or amount parsed, and no other.
C22_RowDropRule ==
    (Normalized /\ ~normalized.raised)
        => Len(normalized.rows)
             = Cardinality({i \in 1..Len(table.rows) :
                              DateParses(table, table.rows[i]) \/ AmountParses(table, table.rows[i])})

\* the number a money cell holds, 0 for a cell that holds none
MoneyOf(c) == IF IsNaN(ToNumeric(c)) THEN 0 ELSE ToNumeric(c)

\* C23: in the Monzo branch amount_gbp is the signed 'Amount' when the table
\* has that column, else money_in - |money_out|; is_income is money_in > 0
\* when the table has a 'Money In' column, else amount_gbp > 0 (Money In 0
\* and Money Out 5 without 'Amount': amount_gbp -5, is_income false).
C23_MonzoAmountRule ==
    (/\ Normalized /\ ~normalized.raised /\ HasMonzoName(table)
     /\ Len(normalized.rows) = Len(table.rows))
        => \A i \in 1..Len(table.rows) :
              LET r == table.rows[i]
                  out == normalized.rows[i]
              IN  /\ out.amount_gbp =
                        IF HasColumn(table, "Amount") THEN ToNumeric(r["Amount"])
                        ELSE MoneyOf(r["Money In"]) - Abs(MoneyOf(r["Money Out"]))
                  /\ out.is_income =
                        IF HasColumn(table, "Money In") THEN MoneyOf(r["Money In"]) > 0
                        ELSE Gt0(out.amount_gbp)

\* a row with Money In 0 and Money Out 5 of a table without an 'Amount'
\* column has become a spending of 5
C23_Witness ==
    /\ Normalized /\ ~normalized.raised
    /\ Len(normalized.rows) = Len(table.rows)
    /\ table.columns = MoneyColumns
    /\ \E i \in 1..Len(table.rows) :
          /\ table.rows[i]["Money In"] = Num(0) /\ table.rows[i]["Money Out"] = Num(5)
          /\ normalized.rows[i].amount_gbp = Float(-5)
          /\ ~normalized.rows[i].is_income

\* the amount cell of a TravelWallet row, as a number
WonOf(df, r) ==
    IF HasColumn(df, "wonhwageumaek(KRW)") THEN ToNumericStripped(r["wonhwageumaek(KRW)"])
    ELSE IF HasColumn(df, "geumaek") THEN ToNumeric(r["geumaek"])
    ELSE NaN

\* the type cell of the row holds 'chungjeon' or 'charge', in any case, as a
\* part of its text
IsCharge(df, r) ==
    /\ HasColumn(df, "jongryu(Payment type)")
    /\ r["jongryu(Payment type)"].t = "str"
    /\ ContainsCharge(r["jongryu(Payment type)"].s)

\* C24: in the TravelWallet branch of the upload normalizer a row whose type
\* cell contains 'chungjeon' or 'charge' (in any case) has is_income true and
\* amount_gbp = +|amount| * rate; every other row, also of a table without a
\* type column, has is_income false and amount_gbp = -|amount| * rate
\* (type 'chungjeon' and 50000 KRW at 1/1750: +28.57, income).
C24_KoreanDirectionRule ==
    (/\ Normalized /\ ~HasMonzoName(table) /\ HasKoreanMarker(table)
     /\ Len(normalized.rows) = Len(table.rows))
        => \A i \in 1..Len(table.rows) :
              LET r == table.rows[i]
                  out == normalized.rows[i]
              IN  ~IsNaN(WonOf(table, r))
                    => /\ out.is_income = IsCharge(table, r)
                       /\ out.amount_gbp =
                             IF IsCharge(table, r) THEN TimesRate(Abs(WonOf(table, r)))
                             ELSE -TimesRate(Abs(WonOf(table, r)))

\* a charge of 50000 KRW has become an income of 50000/1750 pounds, beside a
\* payment that has become a spending
C24_Witness ==
    /\ Normalized /\ Len(normalized.rows) = Len(table.rows)
    /\ table.columns = TravelWalletColumns
    /\ \E i, j \in 1..Len(table.rows) :
          /\ table.rows[i]["jongryu(Payment type)"] = Str("chungjeon")
          /\ table.rows[i]["wonhwageumaek(KRW)"] = Num(50000)
          /\ normalized.rows[i].is_income
          /\ normalized.rows[i].amount_gbp * KRW_PER_GBP = Float(50000)
          /\ table.rows[j]["jongryu(Payment type)"] = Str("gyeolje")
          /\ ~normalized.rows[j].is_income
          /\ normalized.rows[j].amount_gbp < 0

CanonicalFields ==
    {"date", "time", "bank", "type", "merchant", "category", "amount_gbp",
     "original_currency", "original_amount", "is_income"}

\* C29: on every table classified as Monzo (one with a 'Transaction ID' or a
\* 'Date' column) normalize_uploaded_data returns records of the ten
\* canonical fields, one for each row it keeps; it does not fail for want of
\* an 'Amount', 'Money Out', 'Money In' or 'Date' column.
C29_MonzoTotality ==
    (Normalized /\ HasMonzoName(table))
        => /\ ~normalized.raised
           /\ \A r \in Produced : DOMAIN r = CanonicalFields

\* C30: on the same TravelWallet table the CLI loader load_korean_excel and
\* the TravelWallet branch of normalize_uploaded_data give, row by row, the
\* same is_income, the same amount_gbp and the same original_amount.
C30_KoreanNormalizersAgree ==
    (/\ normalized.done /\ normalized.loader = "load_korean_excel" /\ ~normalized.raised
     /\ Len(normalized.rows) = Len(table.rows)
     /\ Len(normalize_uploaded_data(table, "excel").rows) = Len(table.rows))
        => \A i \in 1..Len(table.rows) :
              LET cli == normalized.rows[i]
                  upload == normalize_uploaded_data(table, "excel").rows[i]
              IN  /\ cli.is_income = upload.is_income
                  /\ cli.amount_gbp = upload.amount_gbp
                  /\ cli.original_amount = upload.original_amount

\* C6: every record a normalizer produces with amount_gbp != 0 has
\* is_income = (amount_gbp > 0).
C6_SignInvariant ==
    \A r \in Produced :
        (~IsNaN(r.amount_gbp) /\ r.amount_gbp # 0) => (r.is_income = (r.amount_gbp > 0))

\* C7: original_amount is non-negative in every record a normalizer produces.
C7_OriginalAmountNonNegative ==
    \A r \in Produced : ~IsNaN(r.original_amount) => r.original_amount >= 0

\* C8: every record in a foreign currency has
\* amount_gbp = sign(amount_gbp) * original_amount * KRW_TO_GBP_RATE.
C8_CurrencyInvariant ==
    \A r \in Produced :
        (r.original_currency # "GBP" /\ ~IsNaN(r.amount_gbp))
            => r.amount_gbp = Sign(r.amount_gbp) * TimesRate(r.original_amount)

====
